---- MODULE Spec2Model ----
(***************************************************************************)
(* Model of the bawaba rewards backend (src/main.py): four CSV stores, the *)
(* module-level file setup, and the five request handlers.                 *)
(*                                                                         *)
(* A CSV file is a record [exists, rows]; a row is a tuple of the text     *)
(* cells csv.writer produces (str() of every value).  Strings are TLA+     *)
(* strings, so len(), slicing and concatenation are the real ones.         *)
(* Icons are written by their code points ("U+1F354") to keep the module   *)
(* ASCII.  pandas' dtype inference on read is not modelled: a cell read    *)
(* back is the text that was written.                                      *)
(***************************************************************************)
EXTENDS Integers, Sequences, FiniteSets, TLC

\* Number of POST requests that get past validation (model bound).
MaxPosts == 2

VENDORS_FILE == "vendors.csv"
ITEMS_FILE == "items.csv"
ORDERS_FILE == "orders.csv"
UPLOADS_FILE == "uploads.csv"

FILES == {VENDORS_FILE, ITEMS_FILE, ORDERS_FILE, UPLOADS_FILE}

HEADERS(file) ==
    CASE file = VENDORS_FILE -> <<"vendor_name", "vendor_wallet", "icon">>
      [] file = ITEMS_FILE -> <<"vendor_name", "item_name", "price_kwd", "description">>
      [] file = ORDERS_FILE -> <<"order_id", "vendor", "item", "address", "user_wallet",
                                 "lat", "lon", "timestamp">>
      [] file = UPLOADS_FILE -> <<"order_id", "vendor", "user_wallet", "timestamp", "item",
                                  "price_kwd", "category", "icon">>

SEED_VENDORS ==
    << <<"FluxEats", "0xVendor1", "U+1F30C">>,
       <<"NebulaBites", "0xVendor2", "U+2604 U+FE0F">> >>

ORDER_REWARD == 210000
UPLOAD_REWARD == 100000
WALLET_LEN == 42

ICON_BURGER == "U+1F354"
ICON_SALAD == "U+1F957"
ICON_RECEIPT == "U+1F9FE"

-----------------------------------------------------------------------------
(* Python string and number primitives used by the handlers.               *)

\* str.lower() on one character (ASCII letters).
lower_char(c) ==
    CASE c = "A" -> "a" [] c = "B" -> "b" [] c = "C" -> "c" [] c = "D" -> "d"
      [] c = "E" -> "e" [] c = "F" -> "f" [] c = "G" -> "g" [] c = "H" -> "h"
      [] c = "I" -> "i" [] c = "J" -> "j" [] c = "K" -> "k" [] c = "L" -> "l"
      [] c = "M" -> "m" [] c = "N" -> "n" [] c = "O" -> "o" [] c = "P" -> "p"
      [] c = "Q" -> "q" [] c = "R" -> "r" [] c = "S" -> "s" [] c = "T" -> "t"
      [] c = "U" -> "u" [] c = "V" -> "v" [] c = "W" -> "w" [] c = "X" -> "x"
      [] c = "Y" -> "y" [] c = "Z" -> "z" [] OTHER -> c

RECURSIVE lower(_)
lower(s) ==
    IF Len(s) = 0 THEN ""
    ELSE lower_char(SubSeq(s, 1, 1)) \o lower(SubSeq(s, 2, Len(s)))

\* Python's `sub in s` on strings.
contains(s, sub) ==
    \E i \in 1..(Len(s) - Len(sub) + 1) : SubSeq(s, i, i + Len(sub) - 1) = sub

\* str.startswith
startswith(s, prefix) ==
    Len(s) >= Len(prefix) /\ SubSeq(s, 1, Len(prefix)) = prefix

digit_str(d) ==
    CASE d = 0 -> "0" [] d = 1 -> "1" [] d = 2 -> "2" [] d = 3 -> "3" [] d = 4 -> "4"
      [] d = 5 -> "5" [] d = 6 -> "6" [] d = 7 -> "7" [] d = 8 -> "8" [] d = 9 -> "9"

RECURSIVE nat_str(_)
nat_str(n) ==
    IF n < 10 THEN digit_str(n) ELSE nat_str(n \div 10) \o digit_str(n % 10)

\* str() of a Python int.
int_str(n) == IF n < 0 THEN "-" \o nat_str(0 - n) ELSE nat_str(n)

\* str() of a Python float with an integral value (5.0, -1.0, 0.0).
float_str(x) == int_str(x) \o ".0"

\* Truthiness of a str inside all([...]).
truthy_str(s) == Len(s) > 0

\* Truthiness of a float inside all([...]): 0.0 is falsy.
truthy_float(x) == x # 0

\* sha256(item.encode()).hexdigest(), tabulated for the items of the model.
sha256_hexdigest(item) ==
    CASE item = "Burger Combo" ->
           "872c9d89af2262cae520ed6548d3db67cc3c02cda88bbe89307bba32c05117dc"
      [] item = "Salad Bowl" ->
           "4c4a7b820fc8c05bf4911da38b8c596c6ab88e242cf4bc369565f11800de50da"

\* datetime.now().isoformat() at clock tick t.
isoformat(t) == "T" \o nat_str(t)

-----------------------------------------------------------------------------
VARIABLES files, now, geocalls, posts, accepted, req, env, resp

vars == <<files, now, geocalls, posts, accepted, req, env, resp>>

ABSENT == [exists |-> FALSE, rows |-> <<>>]

\* The module-level setup loop on a fresh deployment; `failed` are the files
\* whose creation raised (logged, and the loop goes on to the next file).
file_setup(failed) ==
    [file \in FILES |->
        IF file \in failed THEN ABSENT
        ELSE [exists |-> TRUE,
              rows |-> <<HEADERS(file)>> \o
                       (IF file = VENDORS_FILE THEN SEED_VENDORS ELSE <<>>)]]

NO_ENV == [geo |-> "not_called", write |-> "not_attempted"]

Init ==
    /\ \E failed \in SUBSET FILES : files = file_setup(failed)
    /\ now = 0
    /\ geocalls = 0
    /\ posts = 0
    /\ accepted = <<>>
    /\ req = [op |-> "none", body |-> <<>>]
    /\ env = NO_ENV
    /\ resp = [op |-> "none", status |-> 0, body |-> <<>>]

-----------------------------------------------------------------------------
(* pandas: read_csv and the two to_dict orientations the handlers use.     *)

\* pd.read_csv: the first line is the header whatever it holds; an empty
\* file raises EmptyDataError.
read_csv(file) ==
    IF Len(file.rows) = 0
    THEN [ok |-> FALSE, error |-> "No columns to parse from file",
          columns |-> <<>>, data |-> <<>>]
    ELSE [ok |-> TRUE, error |-> "",
          columns |-> Head(file.rows), data |-> Tail(file.rows)]

\* df.to_dict("records"): one record per data line, in file order.
to_dict_records(df) ==
    [i \in 1..Len(df.data) |-> [columns |-> df.columns, values |-> df.data[i]]]

drop_at(row, k) ==
    [j \in 1..(Len(row) - 1) |-> IF j < k THEN row[j] ELSE row[j + 1]]

\* df.set_index(key).to_dict("index"): key value -> the remaining columns.
set_index_to_dict(df, key) ==
    LET k == CHOOSE i \in 1..Len(df.columns) : df.columns[i] = key
        keys == {df.data[i][k] : i \in 1..Len(df.data)}
        last(n) == CHOOSE i \in 1..Len(df.data) :
                      /\ df.data[i][k] = n
                      /\ \A j \in (i + 1)..Len(df.data) : df.data[j][k] # n
    IN  [n \in keys |-> [columns |-> drop_at(df.columns, k),
                         values |-> drop_at(df.data[last(n)], k)]]

-----------------------------------------------------------------------------
(* Domain helpers.                                                         *)

\* Mutant: the "Healthy" rule tried before the "Fast Food" rule.
categorize_receipt_healthy_first(vendor) ==
    LET v == lower(vendor)
    IN  IF contains(v, "healthy") \/ contains(v, "salad") \/ contains(v, "bowl")
        THEN <<"Healthy", ICON_SALAD>>
        ELSE IF contains(v, "mcdonald") \/ contains(v, "burger")
        THEN <<"Fast Food", ICON_BURGER>>
        ELSE <<"Other", ICON_RECEIPT>>

categorize_receipt(vendor) ==
    LET v == lower(vendor)
    IN  IF contains(v, "mcdonald") \/ contains(v, "burger")
        THEN <<"Fast Food", ICON_BURGER>>
        ELSE IF contains(v, "healthy") \/ contains(v, "salad") \/ contains(v, "bowl")
        THEN <<"Healthy", ICON_SALAD>>
        ELSE <<"Other", ICON_RECEIPT>>

\* Mutant: the id derived from the wallet instead of the item.
make_order_id_per_wallet(order) ==
    order.vendor_name \o "-" \o SubSeq(order.wallet_address, 3, 10)

\* f"{order.vendor_name}-{sha256(order.item.encode()).hexdigest()[:8]}"
make_order_id(order) ==
    order.vendor_name \o "-" \o SubSeq(sha256_hexdigest(order.item), 1, 8)

\* Mutant: a minimum length instead of an exact one.
wallet_ok_min_length(wallet) == startswith(wallet, "0x") /\ Len(wallet) >= WALLET_LEN

wallet_ok(wallet) == startswith(wallet, "0x") /\ Len(wallet) = WALLET_LEN

\* The two validation checks of create_order, in order; "ok" when both pass.
order_validation(order) ==
    IF ~(/\ truthy_str(order.wallet_address) /\ truthy_str(order.vendor_name)
         /\ truthy_str(order.item) /\ truthy_str(order.delivery_address))
    THEN "Please fill in all fields"
    ELSE IF ~wallet_ok(order.wallet_address)
    THEN "Invalid wallet address"
    ELSE "ok"

\* The two validation checks of upload_receipt, in order; "ok" when both pass.
receipt_validation(receipt) ==
    IF ~(/\ truthy_str(receipt.wallet_address) /\ truthy_str(receipt.order_id)
         /\ truthy_str(receipt.vendor) /\ truthy_str(receipt.item)
         /\ truthy_float(receipt.price_kwd))
    THEN "Please fill in all fields"
    ELSE IF ~wallet_ok(receipt.wallet_address)
    THEN "Invalid wallet address"
    ELSE "ok"

\* What Nominatim.geocode can do: return a location, return None, or raise.
GeoOutcomes == {"found", "none", "raise"}

\* Mutant: no zero fallback, the missing coordinates written as empty cells.
lat_lon_no_fallback(geo) ==
    IF geo = "found" THEN <<float_str(29), float_str(48)>>
    ELSE <<"", "">>

\* lat, lon as create_order computes them, already as csv cells: the
\* location's floats, or the ints 0, 0 of either fallback.
lat_lon(geo) ==
    IF geo = "found" THEN <<float_str(29), float_str(48)>>
    ELSE <<int_str(0), int_str(0)>>

\* Mutant: the file opened with mode "w", which truncates it.
append_row_truncating(file, row) ==
    [files EXCEPT ![file] = [exists |-> TRUE, rows |-> <<row>>]]

\* open(file, "a") followed by one writer.writerow(row).
append_row(file, row) ==
    [files EXCEPT ![file] = [exists |-> TRUE, rows |-> Append(@.rows, row)]]

\* Mutant: the geocoder called before the request is validated.
Reject_after_geocoding(op, body, detail) ==
    /\ req' = [op |-> op, body |-> body]
    /\ env' = NO_ENV
    /\ resp' = [op |-> op, status |-> 400, body |-> detail]
    /\ geocalls' = geocalls + 1
    /\ UNCHANGED <<files, now, posts, accepted>>

\* raise HTTPException(status_code=400, ...) before anything else ran.
Reject(op, body, detail) ==
    /\ req' = [op |-> op, body |-> body]
    /\ env' = NO_ENV
    /\ resp' = [op |-> op, status |-> 400, body |-> detail]
    /\ UNCHANGED <<files, now, geocalls, posts, accepted>>

\* A GET handler's answer; the GET handlers change no store.
Answer(op, status, body) ==
    /\ req' = [op |-> op, body |-> <<>>]
    /\ env' = NO_ENV
    /\ resp' = [op |-> op, status |-> status, body |-> body]
    /\ UNCHANGED <<files, now, geocalls, posts, accepted>>

-----------------------------------------------------------------------------
(* Request inputs.  Each set varies one field of a valid request at a time. *)

W_OK == "0x1111111111111111111111111111111111111111"
W_41 == "0x111111111111111111111111111111111111111"
W_43 == "0x11111111111111111111111111111111111111111"
W_PREFIX == "0X1111111111111111111111111111111111111111"
W_NONHEX == "0xzzzzzzzzzzzzzzzzzzzzzzzzzzzzzzzzzzzzzzzz"

Wallets == {W_OK, W_41, W_43, W_PREFIX, W_NONHEX, ""}

OrderBase ==
    [wallet_address |-> W_OK, vendor_name |-> "FluxEats", item |-> "Burger Combo",
     delivery_address |-> "Kuwait City"]

Orders ==
    {[OrderBase EXCEPT !.wallet_address = w] : w \in Wallets}
    \cup {[OrderBase EXCEPT !.vendor_name = v] : v \in {""}}
    \cup {[OrderBase EXCEPT !.item = i] : i \in {"", "Salad Bowl"}}
    \cup {[OrderBase EXCEPT !.delivery_address = a] : a \in {"", "Nowhere"}}

ReceiptBase ==
    [wallet_address |-> W_OK, order_id |-> "FluxEats-872c9d89", vendor |-> "Generic Diner",
     item |-> "Burger Combo", price_kwd |-> 5]

ReceiptVendors ==
    {"", "McDonalds Express", "Healthy Bowls Co", "Salad and Burger Bar"}

Receipts ==
    {[ReceiptBase EXCEPT !.wallet_address = w] : w \in Wallets}
    \cup {[ReceiptBase EXCEPT !.order_id = o] : o \in {""}}
    \cup {[ReceiptBase EXCEPT !.vendor = v] : v \in ReceiptVendors}
    \cup {[ReceiptBase EXCEPT !.item = i] : i \in {""}}
    \cup {[ReceiptBase EXCEPT !.price_kwd = p] : p \in {0, 0 - 1}}

-----------------------------------------------------------------------------
(* The request handlers.                                                   *)

\* Mutant: a missing vendors file answered like a missing items file.
get_vendors_empty_when_missing ==
    LET file == files[VENDORS_FILE]
        df == read_csv(file)
    IN  IF ~file.exists
        THEN Answer("vendors", 200, <<>>)
        ELSE IF ~df.ok
        THEN Answer("vendors", 500, "Error reading vendors: " \o df.error)
        ELSE Answer("vendors", 200, set_index_to_dict(df, "vendor_name"))

get_vendors ==
    LET file == files[VENDORS_FILE]
        df == read_csv(file)
    IN  IF ~file.exists
        THEN Answer("vendors", 500,
                    "Error reading vendors: 500: Vendors file not found")
        ELSE IF ~df.ok
        THEN Answer("vendors", 500, "Error reading vendors: " \o df.error)
        ELSE IF \A i \in 1..Len(df.columns) : df.columns[i] # "vendor_name"
        THEN Answer("vendors", 500, "Error reading vendors: 'vendor_name'")
        ELSE Answer("vendors", 200, set_index_to_dict(df, "vendor_name"))

get_items ==
    LET file == files[ITEMS_FILE]
        df == read_csv(file)
    IN  IF ~file.exists
        THEN Answer("items", 200, <<>>)
        ELSE IF ~df.ok
        THEN Answer("items", 500, "Error reading items: " \o df.error)
        ELSE Answer("items", 200, to_dict_records(df))

get_market ==
    LET file == files[UPLOADS_FILE]
        df == read_csv(file)
    IN  IF ~file.exists
        THEN Answer("market", 200, <<>>)
        ELSE IF ~df.ok
        THEN Answer("market", 500, "Error reading market: " \o df.error)
        ELSE Answer("market", 200, to_dict_records(df))

create_order ==
    /\ posts < MaxPosts
    /\ \E order \in Orders :
         LET detail == order_validation(order)
         IN  IF detail # "ok"
             THEN Reject("order", order, detail)
             ELSE \E geo \in GeoOutcomes, write_ok \in BOOLEAN :
                    LET order_id == make_order_id(order)
                        ll == lat_lon(geo)
                        row == <<order_id, order.vendor_name, order.item,
                                 order.delivery_address, order.wallet_address,
                                 ll[1], ll[2], isoformat(now)>>
                    IN  /\ req' = [op |-> "order", body |-> order]
                        /\ posts' = posts + 1
                        /\ geocalls' = geocalls + 1
                        /\ accepted' = accepted
                        /\ IF write_ok
                           THEN /\ files' = append_row(ORDERS_FILE, row)
                                /\ now' = now + 1
                                /\ env' = [geo |-> geo, write |-> "ok"]
                                /\ resp' = [op |-> "order", status |-> 200,
                                            body |-> [status |-> "success",
                                                      order_id |-> order_id,
                                                      reward |-> ORDER_REWARD]]
                           ELSE /\ UNCHANGED <<files, now>>
                                /\ env' = [geo |-> geo, write |-> "failed"]
                                /\ resp' = [op |-> "order", status |-> 500,
                                            body |-> "Error writing order: OSError"]

upload_receipt ==
    /\ posts < MaxPosts
    /\ \E receipt \in Receipts :
         LET detail == receipt_validation(receipt)
         IN  IF detail # "ok"
             THEN Reject("upload", receipt, detail)
             ELSE \E write_ok \in BOOLEAN :
                    LET cat == categorize_receipt(receipt.vendor)
                        row == <<receipt.order_id, receipt.vendor, receipt.wallet_address,
                                 isoformat(now), receipt.item,
                                 float_str(receipt.price_kwd), cat[1], cat[2]>>
                    IN  /\ req' = [op |-> "upload", body |-> receipt]
                        /\ posts' = posts + 1
                        /\ geocalls' = geocalls
                        /\ IF write_ok
                           THEN /\ files' = append_row(UPLOADS_FILE, row)
                                /\ now' = now + 1
                                /\ accepted' = Append(accepted, row)
                                /\ env' = [geo |-> "not_called", write |-> "ok"]
                                /\ resp' = [op |-> "upload", status |-> 200,
                                            body |-> [status |-> "success",
                                                      reward |-> UPLOAD_REWARD]]
                           ELSE /\ UNCHANGED <<files, now, accepted>>
                                /\ env' = [geo |-> "not_called", write |-> "failed"]
                                /\ resp' = [op |-> "upload", status |-> 500,
                                            body |-> "Error writing upload: OSError"]

Next ==
    \/ get_vendors
    \/ get_items
    \/ create_order
    \/ upload_receipt
    \/ get_market

Spec == Init /\ [][Next]_vars

-----------------------------------------------------------------------------
(* Vocabulary of the properties.                                           *)

LastRow(file) == files[file].rows[Len(files[file].rows)]

\* One more row at the end of `file`, every other row and file as before.
OneRowAppended(file) ==
    /\ files'[file].exists
    /\ Len(files'[file].rows) = Len(files[file].rows) + 1
    /\ SubSeq(files'[file].rows, 1, Len(files[file].rows)) = files[file].rows
    /\ \A other \in FILES \ {file} : files'[other] = files[other]

\* A 42-character string whose first two characters are "0x".
WalletShaped(w) == Len(w) = 42 /\ SubSeq(w, 1, 2) = "0x"

HexDigits == {"0", "1", "2", "3", "4", "5", "6", "7", "8", "9",
              "a", "b", "c", "d", "e", "f"}

\* The lines of the orders file that are not its header.
OrderLines ==
    {i \in 1..Len(files[ORDERS_FILE].rows) :
        files[ORDERS_FILE].rows[i] # HEADERS(ORDERS_FILE)}

-----------------------------------------------------------------------------
\* C1: every storage file that exists has its fixed header row as its first
\* row, before any data row.  (Violated: a handler that appends to an absent
\* file creates it without a header.)
C1_HeaderFirst ==
    \A file \in FILES :
        files[file].exists =>
            /\ Len(files[file].rows) >= 1
            /\ files[file].rows[1] = HEADERS(file)

\* C2: a step in which POST /order or POST /upload answers 400 changes no
\* storage file, reads no clock and does not call the geocoding service.
C2_ValidationBeforeSideEffects ==
    [][(resp'.op \in {"order", "upload"} /\ resp'.status = 400)
         => (files' = files /\ geocalls' = geocalls /\ now' = now)]_vars

\* C2 witness: an order rejected for its wallet after an earlier order was
\* stored and geocoded.
C2_Witness ==
    /\ resp.op = "order" /\ resp.status = 400
    /\ resp.body = "Invalid wallet address"
    /\ geocalls >= 1
    /\ Len(files[ORDERS_FILE].rows) >= 2

\* The order of a validated POST /order whose geocoding failed is created:
\* success with the order id and reward 210000, one row with lat = lon = 0.
OrderCreatedAtOrigin ==
    /\ resp'.status = 200
    /\ resp'.body.status = "success"
    /\ resp'.body.reward = 210000
    /\ OneRowAppended(ORDERS_FILE)
    /\ LET row == files'[ORDERS_FILE].rows[Len(files'[ORDERS_FILE].rows)]
       IN  /\ row[6] = "0" /\ row[7] = "0"
           /\ row[1] = resp'.body.order_id
           /\ row[2] = req'.body.vendor_name /\ row[3] = req'.body.item

C4_WalletRule ==
    resp.op \in {"order", "upload"} =>
        LET b == req.body
            others == IF req.op = "order"
                      THEN b.vendor_name # "" /\ b.item # "" /\ b.delivery_address # ""
                      ELSE b.order_id # "" /\ b.vendor # "" /\ b.item # ""
            priced == req.op = "upload" => b.price_kwd # 0
        IN  others =>
              /\ ~WalletShaped(b.wallet_address) => resp.status = 400
              /\ WalletShaped(b.wallet_address) =>
                    ~(resp.status = 400 /\ resp.body = "Invalid wallet address")
              /\ (WalletShaped(b.wallet_address) /\ priced) => resp.status # 400

\* C4 witness: a wallet of 40 non-hexadecimal characters after "0x" accepted.
C4_Witness ==
    /\ resp.op = "upload" /\ resp.status = 200
    /\ req.body.wallet_address = W_NONHEX

\* C5: a receipt whose price is zero or negative, with a well-shaped wallet
\* and the other fields non-empty, is accepted whenever the write does not
\* fail: success with reward 100000 and its row at the end of the uploads
\* file.  (Violated: a price of zero is rejected as a missing field.)
C5_NonPositivePriceAccepted ==
    (/\ resp.op = "upload"
     /\ req.body.price_kwd <= 0
     /\ WalletShaped(req.body.wallet_address)
     /\ req.body.order_id # "" /\ req.body.vendor # "" /\ req.body.item # ""
     /\ env.write # "failed")
      => /\ resp.status = 200
         /\ resp.body.reward = 100000
         /\ files[UPLOADS_FILE].exists
         /\ LastRow(UPLOADS_FILE)[1] = req.body.order_id

\* C6: GET /market returns one record per POST /upload that answered
\* success, in the order of the uploads.  (Violated: an uploads file created
\* by an append has no header, and its first upload is read as the header.)
C6_MarketListsEveryUpload ==
    resp.op = "market" =>
        /\ resp.status = 200
        /\ Len(resp.body) = Len(accepted)
        /\ \A i \in 1..Len(accepted) : resp.body[i].values = accepted[i]

\* C7: with the uploads file absent GET /market answers 200 with an empty
\* list, with the items file absent GET /items does too, and with the
\* vendors file absent GET /vendors answers 500.
C7_MissingStoreAsymmetry ==
    /\ (resp.op = "market" /\ ~files[UPLOADS_FILE].exists)
          => (resp.status = 200 /\ resp.body = <<>>)
    /\ (resp.op = "items" /\ ~files[ITEMS_FILE].exists)
          => (resp.status = 200 /\ resp.body = <<>>)
    /\ (resp.op = "vendors" /\ ~files[VENDORS_FILE].exists)
          => resp.status = 500

\* C7 witness: GET /vendors answered 500 with the vendors file absent, in a
\* deployment whose uploads and items files are absent too.
C7_Witness ==
    /\ resp.op = "vendors" /\ resp.status = 500
    /\ ~files[VENDORS_FILE].exists
    /\ ~files[UPLOADS_FILE].exists /\ ~files[ITEMS_FILE].exists

C9_Categorization ==
    (resp.op = "upload" /\ resp.status = 200) =>
        LET vendor == req.body.vendor
            v == lower(vendor)
            stored == <<LastRow(UPLOADS_FILE)[7], LastRow(UPLOADS_FILE)[8]>>
            fast == contains(v, "mcdonald") \/ contains(v, "burger")
            healthy == contains(v, "healthy") \/ contains(v, "salad") \/ contains(v, "bowl")
        IN  /\ LastRow(UPLOADS_FILE)[2] = vendor
            /\ fast => stored = <<"Fast Food", "U+1F354">>
            /\ (~fast /\ healthy) => stored = <<"Healthy", "U+1F957">>
            /\ (~fast /\ ~healthy) => stored = <<"Other", "U+1F9FE">>
            /\ vendor = "McDonalds Express" => stored[1] = "Fast Food"
            /\ vendor = "Healthy Bowls Co" => stored[1] = "Healthy"
            /\ vendor = "Generic Diner" => stored[1] = "Other"
            /\ vendor = "Salad and Burger Bar" => stored[1] = "Fast Food"

\* C9 witness: an upload of a vendor holding both "salad" and "burger" stored.
C9_Witness ==
    /\ resp.op = "upload" /\ resp.status = 200
    /\ req.body.vendor = "Salad and Burger Bar"
    /\ LastRow(UPLOADS_FILE)[7] = "Fast Food"

\* C10: two stored orders with the same vendor and item have the same
\* order_id, which is the vendor, "-" and 8 hexadecimal characters (those of
\* the item's SHA-256), whatever their wallet, address, coordinates and
\* time; the id answered is the id stored; and every successful order is a
\* line of its own (no deduplication).
C10_OrderIdDeterministic ==
    LET rows == files[ORDERS_FILE].rows
    IN  /\ \A i, j \in OrderLines :
              (rows[i][2] = rows[j][2] /\ rows[i][3] = rows[j][3])
                 => rows[i][1] = rows[j][1]
        /\ \A i \in OrderLines :
              LET id == rows[i][1]
                  n == Len(rows[i][2])
              IN  /\ Len(id) = n + 9
                  /\ SubSeq(id, 1, n + 1) = rows[i][2] \o "-"
                  /\ \A k \in (n + 2)..(n + 9) : SubSeq(id, k, k) \in HexDigits
                  /\ rows[i][3] = "Burger Combo" => SubSeq(id, n + 2, n + 9) = "872c9d89"
                  /\ rows[i][3] = "Salad Bowl" => SubSeq(id, n + 2, n + 9) = "4c4a7b82"
        /\ (resp.op = "order" /\ resp.status = 200) =>
              /\ resp.body.order_id = LastRow(ORDERS_FILE)[1]
              /\ LastRow(ORDERS_FILE)[2] = req.body.vendor_name
              /\ LastRow(ORDERS_FILE)[3] = req.body.item
        /\ Cardinality(OrderLines) + Len(accepted) = now

\* C10 witness: two stored orders with one order_id and different wallets,
\* addresses, latitudes and times.
C10_Witness ==
    \E i, j \in OrderLines :
        LET rows == files[ORDERS_FILE].rows
        IN  /\ i < j
            /\ rows[i][1] = rows[j][1]
            /\ rows[i][4] # rows[j][4]
            /\ rows[i][5] # rows[j][5]
            /\ rows[i][6] # rows[j][6]
            /\ rows[i][8] # rows[j][8]

====
